---- MODULE Spec2Model ----
(***************************************************************************)
(* Slotted pages of buzzdb_final.cpp: Tuple (serialize / deserialize),     *)
(* SlottedPage (addTuple, deleteTuple, compactPage, print),                *)
(* StorageManager (load) and BufferManager (moveTupleAcrossPages).         *)
(*                                                                         *)
(* A page is the slot directory (slot_array, indices 0..MAX_SLOTS-1), the  *)
(* bytes of page_data behind the directory (offsets DirectorySize ..       *)
(* PAGE_SIZE-1) and the member metadata_size.  Bytes are character codes.  *)
(* The geometry is scaled: the source has MAX_SLOTS = 512 and a data       *)
(* region of 4096 - 512*6 = 1024 bytes; here MAX_SLOTS and DATA_BYTES are  *)
(* small and PAGE_SIZE is derived from them exactly as in the source.      *)
(***************************************************************************)
EXTENDS Integers, Sequences, FiniteSets, TLC

(* ---- bounds of the model ---- *)
MAX_SLOTS == 2
DATA_BYTES == 12
MaxOps == 5
MaxDrainOps == 6
MaxFields == 3

(* ---- constants of the program ---- *)
SIZEOF_SLOT == 6
SIZEOF_INT == 4
INVALID_VALUE == 65535
INT_MAX == 2147483647
INT_MIN == 0 - INT_MAX - 1

DirectorySize == SIZEOF_SLOT * MAX_SLOTS
PAGE_SIZE == DirectorySize + DATA_BYTES

PageIds == {0, 1}
SlotIdx == 0 .. (MAX_SLOTS - 1)

(* Tuples the callers insert: zero fields, and one field whose text and    *)
(* terminator are shorter than its 4 bytes (7) or longer (12345).          *)
Tuples == { <<>>, <<7>>, <<12345>> }

(* A byte read past the end of a std::string's characters and terminator   *)
(* is indeterminate: either of these.                                      *)
IndeterminateBytes == {0, 63}

U16(n) == n % 65536

(* ------------------------------------------------------------------ *)
(* Tuple                                                               *)
(* ------------------------------------------------------------------ *)
getSize(t) == SIZEOF_INT * Len(t)

RECURSIVE DecDigits(_)
DecDigits(n) ==
    IF n < 10 THEN <<48 + n>> ELSE DecDigits(n \div 10) \o <<48 + (n % 10)>>

(* the decimal digits of -v for v < 0, INT_MIN included, whose negation    *)
(* is not an int                                                           *)
NegDigits(v) ==
    LET m == 0 - (v + 1)
    IN  IF m = INT_MAX
        THEN DecDigits(m \div 10) \o <<48 + (m % 10) + 1>>
        ELSE DecDigits(m + 1)

(* the field's text as it would be without the separating " " *)
FieldTextNoSeparator(v) ==
    IF v < 0 THEN <<45>> \o NegDigits(v) ELSE DecDigits(v)

(* operator<<(int) followed by " " *)
FieldText(v) ==
    (IF v < 0 THEN <<45>> \o NegDigits(v) ELSE DecDigits(v)) \o <<32>>

RECURSIVE serialize(_)
serialize(t) ==
    IF t = <<>> THEN <<>> ELSE FieldText(Head(t)) \o serialize(Tail(t))

IsSpace(c) == c = 32 \/ (c >= 9 /\ c <= 13)
IsDigit(c) == c >= 48 /\ c <= 57

RECURSIVE SkipSpace(_, _)
SkipSpace(d, p) ==
    IF p <= Len(d) /\ IsSpace(d[p]) THEN SkipSpace(d, p + 1) ELSE p

RECURSIVE DigitsEnd(_, _)
DigitsEnd(d, p) ==
    IF p <= Len(d) /\ IsDigit(d[p]) THEN DigitsEnd(d, p + 1) ELSE p

(* The digits d[p..e-1] accumulated as a non-positive number, as num_get   *)
(* does within the range of int: lastMax is 7 for a positive value and 8   *)
(* for a negative one; 1 stands for a value out of range.                  *)
RECURSIVE DigitsValue(_, _, _, _, _)
DigitsValue(d, p, e, acc, lastMax) ==
    IF p >= e THEN acc
    ELSE IF acc < 0 - (INT_MAX \div 10)
            \/ (acc = 0 - (INT_MAX \div 10) /\ d[p] - 48 > lastMax)
         THEN 1
         ELSE DigitsValue(d, p + 1, e, acc * 10 - (d[p] - 48), lastMax)

(* while (ss >> value) addField(value): skip white space, optional sign,   *)
(* decimal digits; stop at the first extraction that fails.                *)
RECURSIVE ParseFields(_, _, _)
ParseFields(d, p, acc) ==
    LET s == SkipSpace(d, p)
        signed == s <= Len(d) /\ (d[s] = 45 \/ d[s] = 43)
        neg == s <= Len(d) /\ d[s] = 45
        b == IF signed THEN s + 1 ELSE s
        e == DigitsEnd(d, b)
        v == DigitsValue(d, b, e, 0, IF neg THEN 8 ELSE 7)
    IN  IF e = b \/ v = 1 THEN acc
        ELSE ParseFields(d, e, Append(acc, IF neg THEN v ELSE 0 - v))

deserialize(d) == ParseFields(d, 1, <<>>)

(* ------------------------------------------------------------------ *)
(* SlottedPage                                                         *)
(* ------------------------------------------------------------------ *)
EmptySlot == [empty |-> TRUE, offset |-> INVALID_VALUE, length |-> INVALID_VALUE]

FreshPage ==
    [ slots |-> [i \in SlotIdx |-> EmptySlot],
      data |-> [a \in DirectorySize .. (PAGE_SIZE - 1) |-> 0],
      metadata_size |-> DirectorySize ]

InPage(a) == a >= DirectorySize /\ a < PAGE_SIZE

(* first index i with slot_array[i].empty, MAX_SLOTS when there is none *)
FirstEmpty(slots) ==
    IF \E i \in SlotIdx : slots[i].empty
    THEN CHOOSE i \in SlotIdx :
            slots[i].empty /\ \A k \in SlotIdx : k < i => ~slots[k].empty
    ELSE MAX_SLOTS

(* the n bytes of page_data that start at offset off; a byte past the end  *)
(* of the buffer is read only once ub holds, and stands as 0               *)
ReadBytes(data, off, n) ==
    [k \in 1 .. n |-> IF InPage(off + k - 1) THEN data[off + k - 1] ELSE 0]

(* page_data after bytes are stored at offset off; what falls past the end *)
(* of the buffer is not part of the page                                   *)
WriteBytes(data, off, bytes) ==
    [a \in DOMAIN data |->
        IF a >= off /\ a < off + Len(bytes) THEN bytes[a - off + 1] ELSE data[a]]

(* The tuple_size bytes memcpy reads from serialized_tuple.c_str(): the    *)
(* characters, then the terminator, then (when tuple_size is larger than   *)
(* the text and its terminator) bytes past the end of the string.          *)
OverRead(t) ==
    IF getSize(t) > Len(serialize(t)) + 1
    THEN getSize(t) - Len(serialize(t)) - 1 ELSE 0

CopiedBytes(t, g) ==
    LET s == serialize(t)
    IN  [k \in 1 .. getSize(t) |->
            IF k <= Len(s) THEN s[k]
            ELSE IF k = Len(s) + 1 THEN 0
            ELSE g[k - Len(s) - 1]]

(* offset addTuple computes for the slot index i it found *)
InsertOffset(page, i) ==
    IF i = 0 THEN page.metadata_size
    ELSE page.slots[i - 1].offset + page.slots[i - 1].length

(* the capacity test with > for >=: a tuple may end at PAGE_SIZE *)
FitsToTheEnd(offset, tuple_size) == ~(offset + tuple_size > PAGE_SIZE)

(* addTuple goes on when "offset + tuple_size >= PAGE_SIZE" is false *)
Fits(offset, tuple_size) == ~(offset + tuple_size >= PAGE_SIZE)

(* addTuple storing the length of the serialized text, not tuple_size *)
addTupleTextLength(page, t, g) ==
    LET tuple_size == getSize(t)
        i == FirstEmpty(page.slots)
    IN  IF i = MAX_SLOTS THEN [page |-> page, ret |-> FALSE]
        ELSE LET offset == InsertOffset(page, i)
             IN  IF ~Fits(offset, tuple_size)
                 THEN [page |-> page, ret |-> FALSE]
                 ELSE [page |->
                          [page EXCEPT
                             !.data = WriteBytes(@, offset, CopiedBytes(t, g)),
                             !.slots[i] = [empty |-> FALSE,
                                           offset |-> U16(offset),
                                           length |-> U16(Len(serialize(t)))]],
                       ret |-> TRUE]

addTuple(page, t, g) ==
    LET tuple_size == getSize(t)
        i == FirstEmpty(page.slots)
    IN  IF i = MAX_SLOTS THEN [page |-> page, ret |-> FALSE]
        ELSE LET offset == InsertOffset(page, i)
             IN  IF ~Fits(offset, tuple_size)
                 THEN [page |-> page, ret |-> FALSE]
                 ELSE [page |->
                          [page EXCEPT
                             !.data = WriteBytes(@, offset, CopiedBytes(t, g)),
                             !.slots[i] = [empty |-> FALSE,
                                           offset |-> U16(offset),
                                           length |-> U16(tuple_size)]],
                       ret |-> TRUE]

(* deleteTuple as it would be if it also reset the slot's offset and       *)
(* length to INVALID_VALUE                                                 *)
deleteTupleReset(page, index) ==
    IF index < MAX_SLOTS /\ ~page.slots[index].empty
    THEN [page EXCEPT !.slots[index] = EmptySlot]
    ELSE page

deleteTuple(page, index) ==
    IF index < MAX_SLOTS /\ ~page.slots[index].empty
    THEN [page EXCEPT !.slots[index].empty = TRUE]
    ELSE page

(* compactPage from slot index i on, new_offset being the next position.   *)
(* oob records a memmove that reaches past the end of page_data.           *)
RECURSIVE CompactLoop(_, _, _, _)
CompactLoop(page, i, new_offset, oob) ==
    IF i = MAX_SLOTS THEN [page |-> page, oob |-> oob]
    ELSE IF page.slots[i].empty THEN CompactLoop(page, i + 1, new_offset, oob)
    ELSE LET old_offset == page.slots[i].offset
             length == page.slots[i].length
         IN  IF old_offset # new_offset
             THEN CompactLoop(
                    [page EXCEPT
                       !.data = WriteBytes(@, new_offset,
                                           ReadBytes(page.data, old_offset, length)),
                       !.slots[i].offset = U16(new_offset)],
                    i + 1, new_offset + length,
                    oob \/ new_offset + length > PAGE_SIZE
                        \/ old_offset + length > PAGE_SIZE)
             ELSE CompactLoop(page, i + 1, new_offset + length, oob)

(* compactPage as it would be if it also stored the end of the compacted   *)
(* tuples in metadata_size                                                 *)
compactPageMovesMark(page) ==
    LET c == CompactLoop(page, 0, page.metadata_size, FALSE)
        occ == {i \in SlotIdx : ~page.slots[i].empty}
        last == CHOOSE i \in occ : \A k \in occ : k <= i
        end == IF occ = {} THEN page.metadata_size
               ELSE c.page.slots[last].offset + c.page.slots[last].length
    IN  [page |-> [c.page EXCEPT !.metadata_size = end], oob |-> c.oob]

compactPage(page) == CompactLoop(page, 0, page.metadata_size, FALSE)

(* Slot rendered as the bytes of struct Slot: empty at +0, offset at +2,   *)
(* length at +4, both little-endian; the padding byte at +1 is untouched.  *)
SlotImage(data, base, off, len) ==
    [a \in DOMAIN data |->
        IF a = base THEN 0
        ELSE IF a = base + 2 THEN off % 256
        ELSE IF a = base + 3 THEN off \div 256
        ELSE IF a = base + 4 THEN len % 256
        ELSE IF a = base + 5 THEN len \div 256
        ELSE data[a]]

(* load as it would be if every reference made a new page *)
loadNew(ps, page_id) ==
    [id \in DOMAIN ps \cup {page_id} |->
        IF id = page_id THEN FreshPage ELSE ps[id]]

(* StorageManager::load: pages[page_id], default-constructed when absent *)
load(ps, page_id) ==
    IF page_id \in DOMAIN ps THEN ps ELSE (page_id :> FreshPage) @@ ps

(* The loop of moveTupleAcrossPages from source slot i on.  from_page and  *)
(* to_page are references into the store ps, so the two may be one page.   *)
RECURSIVE MoveLoop(_, _, _, _)
MoveLoop(ps, from, to, i) ==
    IF i = MAX_SLOTS
    THEN LET c == compactPage(ps[from])
         IN  [pages |-> [ps EXCEPT ![from] = c.page], ret |-> TRUE, oob |-> c.oob]
    ELSE IF ps[from].slots[i].empty THEN MoveLoop(ps, from, to, i + 1)
    ELSE LET length == ps[from].slots[i].length
             new_offset == ps[to].metadata_size
         IN  IF new_offset + length >= PAGE_SIZE
             THEN [pages |-> ps, ret |-> FALSE, oob |-> FALSE]
             ELSE LET moved == ReadBytes(ps[from].data, ps[from].slots[i].offset, length)
                      ps1 == [ps EXCEPT ![to].data = WriteBytes(@, new_offset, moved)]
                      ps2 == [ps1 EXCEPT ![from].slots[i].empty = TRUE]
                      j == FirstEmpty(ps2[to].slots)
                      ps3 == IF j < MAX_SLOTS
                             THEN [ps2 EXCEPT ![to].slots[j] =
                                      [empty |-> FALSE,
                                       offset |-> U16(new_offset),
                                       length |-> length]]
                             ELSE [ps2 EXCEPT ![to].data =
                                      SlotImage(@, SIZEOF_SLOT * j,
                                                U16(new_offset), length)]
                      ps4 == [ps3 EXCEPT ![to].metadata_size = @ + length]
                  IN  MoveLoop(ps4, from, to, i + 1)

moveTupleAcrossPages(ps, from, to) == MoveLoop(load(load(ps, from), to), from, to, 0)

(* SlottedPage::print: the occupied slots and their deserialized tuples *)
Occupied(page) == {i \in SlotIdx : ~page.slots[i].empty}

TupleBytes(page, i) == ReadBytes(page.data, page.slots[i].offset, page.slots[i].length)

TupleAt(page, i) == deserialize(TupleBytes(page, i))

print(page) == [i \in Occupied(page) |-> TupleAt(page, i)]

(* ------------------------------------------------------------------ *)
(* State                                                               *)
(* ------------------------------------------------------------------ *)
VARIABLES
    pages,      \* StorageManager::pages: page id -> SlottedPage
    lastOp,     \* the call made last, its arguments and its return value
    inserted,   \* per page and slot: the tuple addTuple stored there, if any
    ub,         \* a memmove has gone past the end of a page buffer
    nops,       \* number of calls made
    tupleFields,  \* Tuple::fields of the tuple a caller serializes
    tupleText,    \* the std::string Tuple::serialize returned for it, if any
    tupleParsed   \* Tuple::fields of what Tuple::deserialize made of the text

vars == <<pages, lastOp, inserted, ub, nops, tupleFields, tupleText, tupleParsed>>
pageVars == <<pages, lastOp, inserted, ub, nops>>
tupleVars == <<tupleFields, tupleText, tupleParsed>>

Op(name, page, to, index, tuple, ret) ==
    [op |-> name, page |-> page, to |-> to, index |-> index,
     tuple |-> tuple, ret |-> ret]

Unknown == [known |-> FALSE, fields |-> <<>>]
Known(t) == [known |-> TRUE, fields |-> t]
NothingInserted == [p \in PageIds |-> [i \in SlotIdx |-> Unknown]]

NoText == [set |-> FALSE, bytes |-> <<>>]
NoTuple == [set |-> FALSE, fields |-> <<>>]

InitPages ==
    /\ pages = <<>>
    /\ lastOp = Op("init", -1, -1, -1, <<>>, TRUE)
    /\ inserted = NothingInserted
    /\ ub = FALSE
    /\ nops = 0

Init ==
    /\ InitPages
    /\ tupleFields = <<>>
    /\ tupleText = NoText
    /\ tupleParsed = NoTuple

(* once a memmove has left the page buffer the program has no defined     *)
(* behaviour, and the model makes no further call                          *)
CanCall == ~ub

(* load of an id not yet in the map; a load of a present id changes nothing *)
Load(id) ==
    /\ CanCall
    /\ id \notin DOMAIN pages
    /\ pages' = load(pages, id)
    /\ lastOp' = Op("load", id, -1, -1, <<>>, TRUE)
    /\ UNCHANGED <<inserted, ub, nops>>
    /\ UNCHANGED tupleVars

AddTupleCall(id, t) ==
    /\ CanCall
    /\ id \in DOMAIN pages
    /\ \E g \in [1 .. OverRead(t) -> IndeterminateBytes] :
         LET r == addTuple(pages[id], t, g)
             i == FirstEmpty(pages[id].slots)
         IN  /\ pages' = [pages EXCEPT ![id] = r.page]
             /\ lastOp' = Op("addTuple", id, -1, -1, t, r.ret)
             /\ inserted' = IF r.ret
                            THEN [inserted EXCEPT ![id][i] = Known(t)]
                            ELSE inserted
    /\ nops' = nops + 1
    /\ UNCHANGED ub
    /\ UNCHANGED tupleVars

DeleteTupleCall(id, index) ==
    /\ CanCall
    /\ id \in DOMAIN pages
    /\ pages' = [pages EXCEPT ![id] = deleteTuple(@, index)]
    /\ lastOp' = Op("deleteTuple", id, -1, index, <<>>, TRUE)
    /\ inserted' = IF index < MAX_SLOTS
                   THEN [inserted EXCEPT ![id][index] = Unknown]
                   ELSE inserted
    /\ nops' = nops + 1
    /\ UNCHANGED ub
    /\ UNCHANGED tupleVars

CompactPageCall(id) ==
    /\ CanCall
    /\ id \in DOMAIN pages
    /\ LET c == compactPage(pages[id])
       IN  /\ pages' = [pages EXCEPT ![id] = c.page]
           /\ ub' = c.oob
    /\ lastOp' = Op("compactPage", id, -1, -1, <<>>, TRUE)
    /\ nops' = nops + 1
    /\ UNCHANGED inserted
    /\ UNCHANGED tupleVars

MoveCall(from, to) ==
    /\ CanCall
    /\ LET m == moveTupleAcrossPages(pages, from, to)
       IN  /\ pages' = m.pages
           /\ ub' = m.oob
           /\ lastOp' = Op("moveTupleAcrossPages", from, to, -1, <<>>, m.ret)
    /\ inserted' = [inserted EXCEPT ![from] = [i \in SlotIdx |-> Unknown],
                                    ![to] = [i \in SlotIdx |-> Unknown]]
    /\ nops' = nops + 1
    /\ UNCHANGED tupleVars

(* Callers make at most MaxOps calls of addTuple, deleteTuple, compactPage *)
(* and moveTupleAcrossPages, on any pages and in any order.                *)
Budget == nops < MaxOps

AddTuple(id, t) == Budget /\ AddTupleCall(id, t)
DeleteTuple(id, index) == Budget /\ DeleteTupleCall(id, index)
CompactPage(id) == Budget /\ CompactPageCall(id)
MoveTupleAcrossPages(from, to) == Budget /\ MoveCall(from, to)

Next ==
    \/ \E id \in PageIds : Load(id)
    \/ \E id \in PageIds, t \in Tuples : AddTuple(id, t)
    \/ \E id \in PageIds, index \in 0 .. MAX_SLOTS : DeleteTuple(id, index)
    \/ \E id \in PageIds : CompactPage(id)
    \/ \E from \in PageIds, to \in PageIds : MoveTupleAcrossPages(from, to)

Spec == Init /\ [][Next]_vars

(* Callers that use the pages only: load, addTuple, deleteTuple and        *)
(* compactPage, never moveTupleAcrossPages.                                *)
NextPage ==
    \/ \E id \in PageIds : Load(id)
    \/ \E id \in PageIds, t \in Tuples : AddTuple(id, t)
    \/ \E id \in PageIds, index \in 0 .. MAX_SLOTS : DeleteTuple(id, index)
    \/ \E id \in PageIds : CompactPage(id)

SpecPage == Init /\ [][NextPage]_vars

(* Callers that fill pages and drain one page into another: at most        *)
(* MaxDrainOps calls of addTuple, compactPage and moveTupleAcrossPages,    *)
(* the move always between two different pages.                            *)
DrainBudget == nops < MaxDrainOps

Fill(id, t) == DrainBudget /\ AddTupleCall(id, t)
Compact(id) == DrainBudget /\ CompactPageCall(id)
Drain(from, to) == DrainBudget /\ from # to /\ MoveCall(from, to)

NextDrain ==
    \/ \E id \in PageIds : Load(id)
    \/ \E id \in PageIds, t \in Tuples : Fill(id, t)
    \/ \E id \in PageIds : Compact(id)
    \/ \E from \in PageIds, to \in PageIds : Drain(from, to)

SpecDrain == Init /\ [][NextDrain]_vars

(* Callers that serialize a tuple and deserialize the text: the tuple is   *)
(* any tuple of at most MaxFields fields with values from FieldValues.     *)
FieldValues == {0, 7, 0 - 7, 12345, 0 - 12345, INT_MAX, INT_MIN}

RECURSIVE TuplesOfLength(_)
TuplesOfLength(n) ==
    IF n = 0 THEN { <<>> }
    ELSE {Append(t, v) : t \in TuplesOfLength(n - 1), v \in FieldValues}

AnyTuple == UNION {TuplesOfLength(n) : n \in 0 .. MaxFields}

InitTuple ==
    /\ InitPages
    /\ tupleFields \in AnyTuple
    /\ tupleText = NoText
    /\ tupleParsed = NoTuple

Serialize ==
    /\ ~tupleText.set
    /\ tupleText' = [set |-> TRUE, bytes |-> serialize(tupleFields)]
    /\ UNCHANGED <<tupleFields, tupleParsed>>
    /\ UNCHANGED pageVars

Deserialize ==
    /\ tupleText.set /\ ~tupleParsed.set
    /\ tupleParsed' = [set |-> TRUE, fields |-> deserialize(tupleText.bytes)]
    /\ UNCHANGED <<tupleFields, tupleText>>
    /\ UNCHANGED pageVars

NextTuple == Serialize \/ Deserialize

SpecTuple == InitTuple /\ [][NextTuple]_vars

(* ------------------------------------------------------------------ *)
(* Properties                                                          *)
(* ------------------------------------------------------------------ *)
Overlap(s1, s2) ==
    /\ s1.length > 0 /\ s2.length > 0
    /\ s1.offset < s2.offset + s2.length
    /\ s2.offset < s1.offset + s1.length

(* the store as a call that names pages from and to finds it *)
Loaded(from, to) == load(load(pages, from), to)

IsMove(op) == op.op = "moveTupleAcrossPages" /\ op.page # op.to

LowestFree(page) ==
    CHOOSE i \in SlotIdx \ Occupied(page) :
        \A k \in SlotIdx \ Occupied(page) : i <= k

(* C1: on a store that is only inserted into, deleted from and compacted,  *)
(* no two occupied slots of a page have overlapping byte ranges.           *)
C1_NoOverlap ==
    \A p \in DOMAIN pages : \A i \in Occupied(pages[p]), k \in Occupied(pages[p]) :
        i # k => ~Overlap(pages[p].slots[i], pages[p].slots[k])

(* C2: every occupied slot of every page lies inside the data region:      *)
(* offset >= directory size and offset + length <= PAGE_SIZE.              *)
C2_InDataRegion ==
    \A p \in DOMAIN pages : \A i \in Occupied(pages[p]) :
        /\ pages[p].slots[i].offset >= DirectorySize
        /\ pages[p].slots[i].offset + pages[p].slots[i].length <= PAGE_SIZE

(* C3: compactPage (one that stays inside the page buffer) leaves the set  *)
(* of occupied slots, and the length and the tuple print shows of each,    *)
(* unchanged.                                                              *)
C3_CompactPreserves ==
    [][(lastOp'.op = "compactPage" /\ ~ub') =>
        LET p == lastOp'.page
        IN  /\ Occupied(pages'[p]) = Occupied(pages[p])
            /\ \A i \in Occupied(pages[p]) :
                 /\ pages'[p].slots[i].length = pages[p].slots[i].length
                 /\ TupleAt(pages'[p], i) = TupleAt(pages[p], i)]_vars

(* The destination slot of each occupied source slot from index i on, the  *)
(* destination's occupied set being destOcc: the lowest free one, taken in *)
(* source order (MAX_SLOTS when the directory has none left).              *)
RECURSIVE Placement(_, _, _, _)
Placement(i, srcOcc, destOcc, acc) ==
    IF i = MAX_SLOTS THEN acc
    ELSE IF i \notin srcOcc THEN Placement(i + 1, srcOcc, destOcc, acc)
    ELSE LET free == SlotIdx \ destOcc
             j == IF free = {} THEN MAX_SLOTS
                  ELSE CHOOSE x \in free : \A y \in free : x <= y
         IN  Placement(i + 1, srcOcc, destOcc \cup {j}, acc \cup {<<i, j>>})

(* C4: a move between two different pages that returns true empties the   *)
(* source; the destination keeps the tuples it had and gains each source   *)
(* tuple, as print shows it, in the lowest slot free when it was moved.    *)
C4_MoveSucceeds ==
    [][(IsMove(lastOp') /\ lastOp'.ret) =>
        LET pre == Loaded(lastOp'.page, lastOp'.to)
            src == pre[lastOp'.page]
            dst == pre[lastOp'.to]
            dst2 == pages'[lastOp'.to]
            put == Placement(0, Occupied(src), Occupied(dst), {})
        IN  /\ Occupied(pages'[lastOp'.page]) = {}
            /\ \A j \in Occupied(dst) :
                 /\ j \in Occupied(dst2)
                 /\ TupleAt(dst2, j) = TupleAt(dst, j)
            /\ \A m \in put :
                 /\ m[2] \in Occupied(dst2)
                 /\ TupleAt(dst2, m[2]) = TupleAt(src, m[1])
            /\ Occupied(dst2) = Occupied(dst) \cup {m[2] : m \in put}]_vars

(* C5: a move between two different pages writes behind the tuples the    *)
(* destination holds, so each tuple of the destination keeps its slot,     *)
(* its length and what print shows, whatever the move returns.             *)
C5_MoveKeepsDestination ==
    [][IsMove(lastOp') =>
        LET dst == Loaded(lastOp'.page, lastOp'.to)[lastOp'.to]
            dst2 == pages'[lastOp'.to]
        IN  \A j \in Occupied(dst) :
                 /\ j \in Occupied(dst2)
                 /\ dst2.slots[j].length = dst.slots[j].length
                 /\ TupleAt(dst2, j) = TupleAt(dst, j)]_vars

(* C6: a move between two different pages that returns false loses and     *)
(* duplicates nothing: the source slots before the one that did not fit    *)
(* are emptied and their tuples are the destination's new tuples, one      *)
(* each; that slot and the later ones stay occupied with the same tuple.   *)
C6_MoveFailsKeepsTuples ==
    [][(IsMove(lastOp') /\ ~lastOp'.ret) =>
        LET pre == Loaded(lastOp'.page, lastOp'.to)
            src == pre[lastOp'.page]
            src2 == pages'[lastOp'.page]
            dst == pre[lastOp'.to]
            dst2 == pages'[lastOp'.to]
            gone == Occupied(src) \ Occupied(src2)
            new == Occupied(dst2) \ Occupied(dst)
        IN  /\ Occupied(src2) \subseteq Occupied(src)
            /\ Occupied(src2) # {}
            /\ \A i \in gone, k \in Occupied(src2) : i < k
            /\ \A k \in Occupied(src2) : TupleAt(src2, k) = TupleAt(src, k)
            /\ \E f \in [gone -> new] :
                 /\ \A a \in gone, b \in gone : f[a] = f[b] => a = b
                 /\ \A n \in new : \E a \in gone : f[a] = n
                 /\ \A a \in gone : TupleAt(dst2, f[a]) = TupleAt(src, a)]_vars

(* end of the tuples a page holds, the directory size when it holds none *)
RECURSIVE EndOfTuples(_, _, _)
EndOfTuples(page, i, end) ==
    IF i = MAX_SLOTS THEN end
    ELSE IF ~page.slots[i].empty
            /\ page.slots[i].offset + page.slots[i].length > end
         THEN EndOfTuples(page, i + 1, page.slots[i].offset + page.slots[i].length)
         ELSE EndOfTuples(page, i + 1, end)

(* the first occupied source slot from i on that does not fit behind end,  *)
(* each one that fits moving end on; MAX_SLOTS when all fit                *)
RECURSIVE FirstUnfit(_, _, _)
FirstUnfit(src, i, end) ==
    IF i = MAX_SLOTS THEN MAX_SLOTS
    ELSE IF src.slots[i].empty THEN FirstUnfit(src, i + 1, end)
    ELSE IF end + src.slots[i].length >= PAGE_SIZE THEN i
    ELSE FirstUnfit(src, i + 1, end + src.slots[i].length)

(* C7: a move between two different pages returns false when the space     *)
(* behind the tuples the destination holds is too small for a source tuple *)
(* it comes to, and that source slot stays occupied.                       *)
C7_MoveFailsWhenFull ==
    [][IsMove(lastOp') =>
        LET pre == Loaded(lastOp'.page, lastOp'.to)
            src == pre[lastOp'.page]
            u == FirstUnfit(src, 0, EndOfTuples(pre[lastOp'.to], 0, DirectorySize))
        IN  u < MAX_SLOTS =>
              /\ ~lastOp'.ret
              /\ u \in Occupied(pages'[lastOp'.page])]_vars

(* C8: on a page with a free slot addTuple returns true exactly when the   *)
(* insertion offset plus the tuple's size is at most PAGE_SIZE - 1, and a  *)
(* failed addTuple leaves every page as it was.                            *)
C8_InsertCapacity ==
    [][(lastOp'.op = "addTuple" /\ Occupied(pages[lastOp'.page]) # SlotIdx) =>
        LET page == pages[lastOp'.page]
            end == InsertOffset(page, LowestFree(page))
                     + SIZEOF_INT * Len(lastOp'.tuple)
        IN  /\ end <= PAGE_SIZE - 1 => lastOp'.ret
            /\ end >= PAGE_SIZE => ~lastOp'.ret
            /\ ~lastOp'.ret => pages' = pages]_vars

(* an addTuple has just failed for lack of room on a page with a free slot *)
C8_Witness ==
    /\ lastOp.op = "addTuple" /\ ~lastOp.ret
    /\ Occupied(pages[lastOp.page]) # SlotIdx
    /\ InsertOffset(pages[lastOp.page], LowestFree(pages[lastOp.page]))
         + SIZEOF_INT * Len(lastOp.tuple) = PAGE_SIZE

(* C9: a successful addTuple activates the lowest-index free slot with the *)
(* tuple's size as length and changes no other slot; with every slot       *)
(* occupied addTuple fails and changes nothing.                            *)
C9_InsertLowestSlot ==
    [][lastOp'.op = "addTuple" =>
        LET page == pages[lastOp'.page]
            page2 == pages'[lastOp'.page]
        IN  /\ lastOp'.ret =>
                 /\ Occupied(page) # SlotIdx
                 /\ ~page2.slots[LowestFree(page)].empty
                 /\ page2.slots[LowestFree(page)].length
                      = SIZEOF_INT * Len(lastOp'.tuple)
                 /\ \A k \in SlotIdx \ {LowestFree(page)} :
                      page2.slots[k] = page.slots[k]
            /\ Occupied(page) = SlotIdx => ~lastOp'.ret /\ pages' = pages]_vars

(* an addTuple has just failed on a page whose slots were all filled by    *)
(* successful addTuple calls                                               *)
C9_Witness ==
    /\ lastOp.op = "addTuple" /\ ~lastOp.ret
    /\ Occupied(pages[lastOp.page]) = SlotIdx
    /\ \A i \in SlotIdx : inserted[lastOp.page][i].known

(* C10: while the tuple addTuple stored in a slot has not been deleted,    *)
(* print shows that slot with the fields of the inserted tuple, across     *)
(* later addTuple, deleteTuple and compactPage calls.                      *)
C10_InsertPrintRoundTrip ==
    \A p \in DOMAIN pages : \A i \in SlotIdx :
        inserted[p][i].known =>
            /\ i \in Occupied(pages[p])
            /\ TupleAt(pages[p], i) = inserted[p][i].fields

(* C11: deleteTuple on an occupied slot within the directory changes that  *)
(* slot's empty flag and nothing else: the page bytes, the slot's offset   *)
(* and length, every other slot and every other page stay as they were;    *)
(* deleteTuple on an index past the directory or on an empty slot changes  *)
(* nothing.                                                                *)
C11_DeleteFrame ==
    [][lastOp'.op = "deleteTuple" =>
        LET p == lastOp'.page
            index == lastOp'.index
        IN  IF index < MAX_SLOTS /\ ~pages[p].slots[index].empty
            THEN /\ pages'[p].slots[index].empty
                 /\ pages'[p].slots[index].offset = pages[p].slots[index].offset
                 /\ pages'[p].slots[index].length = pages[p].slots[index].length
                 /\ pages'[p].data = pages[p].data
                 /\ pages'[p].metadata_size = pages[p].metadata_size
                 /\ \A k \in SlotIdx \ {index} :
                      pages'[p].slots[k] = pages[p].slots[k]
                 /\ \A q \in DOMAIN pages \ {p} : pages'[q] = pages[q]
            ELSE pages' = pages]_vars

(* deleteTuple has just emptied a slot that addTuple had filled, on a page *)
(* that holds another tuple                                                *)
C11_Witness ==
    /\ lastOp.op = "deleteTuple" /\ lastOp.index < MAX_SLOTS
    /\ pages[lastOp.page].slots[lastOp.index].empty
    /\ pages[lastOp.page].slots[lastOp.index].length = SIZEOF_INT
    /\ Occupied(pages[lastOp.page]) # {}

(* C12: compactPage is idempotent: on every page the callers can reach,    *)
(* a compactPage that stays within the page buffer leaves a page on which  *)
(* a second compactPage changes no slot, no byte and nothing else.         *)
C12_CompactIdempotent ==
    \A p \in DOMAIN pages :
        LET once == compactPage(pages[p])
            twice == compactPage(once.page)
        IN  ~once.oob => twice.page = once.page /\ ~twice.oob

(* compactPage has just moved the tuple of slot 1 down over the space of   *)
(* the deleted slot 0                                                      *)
C12_Witness ==
    /\ lastOp.op = "compactPage" /\ ~ub
    /\ LET page == pages[lastOp.page]
       IN  /\ page.slots[0].empty /\ page.slots[0].length = SIZEOF_INT
           /\ ~page.slots[1].empty /\ page.slots[1].length = SIZEOF_INT
           /\ page.slots[1].offset = page.slots[0].offset

(* C13: after compactPage, on any page the callers can reach, a page that  *)
(* received tuples by moveTupleAcrossPages included, the occupied slots    *)
(* lie one behind the other in index order, without gaps, the first of     *)
(* them at DirectorySize = MAX_SLOTS * sizeof(Slot).                       *)
C13_CompactFromDirectory ==
    [][lastOp'.op = "compactPage" /\ ~ub' =>
        LET page == pages'[lastOp'.page]
            occ == Occupied(page)
        IN  \A i \in occ :
              page.slots[i].offset
                = IF \A k \in occ : i <= k
                  THEN DirectorySize
                  ELSE LET prev == CHOOSE k \in occ :
                                     k < i /\ \A m \in occ : m < i => m <= k
                       IN  page.slots[prev].offset + page.slots[prev].length]_vars

(* C14: deserialize(serialize(t)) has the fields of t, as many and with    *)
(* the same values in the same order, for a tuple of no field, for         *)
(* negative values and for the least and the greatest int.                 *)
C14_SerializeRoundTrip ==
    tupleParsed.set => tupleParsed.fields = tupleFields

(* a tuple of several fields, a negative one and the least int among       *)
(* them, has been serialized and deserialized                              *)
C14_Witness ==
    /\ tupleParsed.set
    /\ Len(tupleFields) >= 2
    /\ \E k \in DOMAIN tupleFields : tupleFields[k] = 0 - 7
    /\ \E k \in DOMAIN tupleFields : tupleFields[k] = INT_MIN

(* C15: the first load of a page id yields a new page with every slot      *)
(* empty and leaves the other pages alone; a later load of the id yields   *)
(* the page with the state it has; no page ever leaves the store; and      *)
(* addTuple, deleteTuple and compactPage on one page change no page of a   *)
(* different id.                                                           *)
C15_PageStore ==
    [][/\ \A id \in DOMAIN pages : load(pages, id) = pages
       /\ DOMAIN pages \subseteq DOMAIN pages'
       /\ lastOp'.op = "load" =>
             /\ lastOp'.page \notin DOMAIN pages
             /\ Occupied(pages'[lastOp'.page]) = {}
             /\ \A q \in DOMAIN pages : pages'[q] = pages[q]
       /\ lastOp'.op \in {"addTuple", "deleteTuple", "compactPage"} =>
             /\ DOMAIN pages' = DOMAIN pages
             /\ \A q \in DOMAIN pages \ {lastOp'.page} :
                  pages'[q] = pages[q]]_vars

(* addTuple has just stored a tuple on one page while the other page,      *)
(* loaded earlier, holds a tuple of its own                                *)
C15_Witness ==
    /\ lastOp.op = "addTuple" /\ lastOp.ret
    /\ \E q \in DOMAIN pages \ {lastOp.page} :
         /\ Occupied(pages[q]) # {}
         /\ \E i \in SlotIdx : inserted[q][i].known

(* C16: a successful addTuple of a tuple with fields places it at the      *)
(* page's high-water mark, so not below the end of any tuple the page      *)
(* holds: space is never handed out again before a compactPage and the     *)
(* offsets addTuple hands out do not go back.                              *)
C16_InsertAtHighWater ==
    [][lastOp'.op = "addTuple" /\ lastOp'.ret /\ lastOp'.tuple # <<>> =>
        LET page == pages[lastOp'.page]
            i == LowestFree(page)
        IN  \A k \in Occupied(page) :
              pages'[lastOp'.page].slots[i].offset
                >= page.slots[k].offset + page.slots[k].length]_vars

(* the lengths of the occupied slots from index i on, added up *)
RECURSIVE OccupiedLength(_, _)
OccupiedLength(page, i) ==
    IF i = MAX_SLOTS THEN 0
    ELSE (IF page.slots[i].empty THEN 0 ELSE page.slots[i].length)
           + OccupiedLength(page, i + 1)

(* C17: the first successful addTuple of a tuple with fields right after a *)
(* compactPage of the page places the tuple at DirectorySize plus the      *)
(* lengths of all occupied slots, whichever slot index it takes.           *)
C17_InsertAfterCompact ==
    [][/\ lastOp.op = "compactPage"
       /\ lastOp'.op = "addTuple" /\ lastOp'.ret /\ lastOp'.tuple # <<>>
       /\ lastOp'.page = lastOp.page
       => LET page == pages[lastOp'.page]
              i == LowestFree(page)
          IN  pages'[lastOp'.page].slots[i].offset
                = DirectorySize + OccupiedLength(page, 0)]_vars

(* C18: every empty slot, never used, deleted or emptied by a move, has    *)
(* offset and length INVALID_VALUE.                                        *)
C18_EmptySlotInvalid ==
    \A p \in DOMAIN pages : \A i \in SlotIdx :
        pages[p].slots[i].empty =>
            /\ pages[p].slots[i].offset = INVALID_VALUE
            /\ pages[p].slots[i].length = INVALID_VALUE

(* C19: moveTupleAcrossPages fills only destination slots of the           *)
(* directory: every source slot it empties gets the lowest destination     *)
(* slot that is free at that point, an index below MAX_SLOTS; with the     *)
(* destination directory full it writes no slot entry behind the           *)
(* directory.                                                              *)
C19_MoveWithinDirectory ==
    [][IsMove(lastOp') =>
        LET pre == Loaded(lastOp'.page, lastOp'.to)
            src == pre[lastOp'.page]
            dst == pre[lastOp'.to]
            gone == Occupied(src) \ Occupied(pages'[lastOp'.page])
        IN  \A m \in Placement(0, gone, Occupied(dst), {}) :
              m[2] \in SlotIdx]_vars

(* the number of occupied slots of the page whose bytes are b *)
Copies(page, b) ==
    Cardinality({i \in Occupied(page) : TupleBytes(page, i) = b})

(* C20: moveTupleAcrossPages from a page to the same page returns, and     *)
(* when its memmoves stay within the page buffer it neither loses nor      *)
(* duplicates nor changes a tuple: the occupied slots hold the same        *)
(* byte strings as before, each as often as before.                        *)
C20_MoveToSelf ==
    [][/\ lastOp'.op = "moveTupleAcrossPages"
       /\ lastOp'.page = lastOp'.to
       /\ ~ub'
       => LET pre == Loaded(lastOp'.page, lastOp'.to)[lastOp'.page]
              post == pages'[lastOp'.page]
          IN  /\ \A i \in Occupied(pre) :
                   Copies(post, TupleBytes(pre, i)) = Copies(pre, TupleBytes(pre, i))
              /\ \A i \in Occupied(post) :
                   Copies(pre, TupleBytes(post, i)) = Copies(post, TupleBytes(post, i))]_vars

====
